---- MODULE Spec2Model ----
(***************************************************************************)
(* Model of scripts/workout.py: the SQLite store (exercises, workouts,     *)
(* sets), the add-exercise and log commands, and the analytics queries.    *)
(*                                                                         *)
(* Every step of a command ends at a conn.commit(), so every state of the  *)
(* model is a committed state of the database file.                        *)
(*                                                                         *)
(* Numbers.  A REAL is a pair <<hi, lo>> standing for hi * 10^4 + lo units *)
(* of 10^-8 (0 <= lo < 10^4), so 1.0 is <<10^4, 0>>; NaN is <<>>.  The     *)
(* arithmetic is exact (the rounding of IEEE doubles is not modelled).     *)
(* e1RM values are kept multiplied by 30, which keeps them exact too.      *)
(* Timestamps are date * TimesPerDay + time; their ISO-8601 strings at     *)
(* second precision are fixed-width, so string order is integer order.     *)
(* A nullable column or optional argument is <<>> (NULL/None) or <<v>>.    *)
(***************************************************************************)
EXTENDS Integers, Sequences, FiniteSets, TLC

VARIABLES exercises,   \* table exercises: set of rows
          workouts,    \* table workouts: set of rows
          sets,        \* table sets: set of rows
          pc,          \* pc[p]: position of command process p
          loc,         \* loc[p]: <<>> or <<locals of the running cmd_log>>
          result,      \* result[p]: outcome of the last command of p
          snap,        \* snap[p]: <<>> or <<tables when the running cmd_log began>>
          loggedDates  \* dates for which a by-date log reached the session grouper

vars == <<exercises, workouts, sets, pc, loc, result, snap, loggedDates>>
store == <<exercises, workouts, sets>>

(* ------------------------------ bounds --------------------------------- *)
MaxSets == 2       \* the log command is run while fewer rows than this are in sets

Procs == {1, 2}
Dates == {0, 1}
Times == {0, 1}
TimesPerDay == Cardinality(Times)
Timestamps == 0..(Cardinality(Dates) * TimesPerDay - 1)

NULL == <<>>
None == <<>>
NaN == <<>>
Some(v) == <<v>>
Opt(S) == {None} \cup {Some(v) : v \in S}

(* ------------------------------ numbers -------------------------------- *)
Base == 10^4
LB_TO_KG == 45359237          \* 0.45359237 in units of 10^-8

Norm(hi, lo) == <<hi + (lo \div Base), lo % Base>>
\* float("n") for a whole number n
float(n) == <<n * Base, 0>>
MulInt(x, n) == IF x = NaN THEN NaN ELSE Norm(x[1] * n, x[2] * n)
\* float("n") * LB_TO_KG
MulLbToKg(n) == Norm(n * (LB_TO_KG \div Base), n * (LB_TO_KG % Base))
Less(x, y) == x[1] < y[1] \/ (x[1] = y[1] /\ x[2] < y[2])
Leq(x, y) == x = y \/ Less(x, y)
Zero == float(0)

\* args.unit.lower()
lower(u) == CASE u = "KG" -> "kg" [] u = "LB" -> "lb" [] OTHER -> u

\* float(args.weight): args.weight is NaN or a whole number <<n>>
ParseWeight(w) == IF w = NaN THEN NaN ELSE float(w[1])

\* the conversion with its branches swapped
toKilogramsSwapped(w, input_unit) ==
    IF w = NaN THEN NaN
    ELSE IF input_unit = "lb" THEN float(w[1]) ELSE MulLbToKg(w[1])

\* weight_kg = weight if input_unit == "kg" else weight * LB_TO_KG
toKilograms(w, input_unit) ==
    IF w = NaN THEN NaN
    ELSE IF input_unit = "kg" THEN float(w[1]) ELSE MulLbToKg(w[1])

\* Epley applied to single-rep sets too
epley_e1rm_no_single(weight_kg, reps) ==
    IF reps < 1 THEN MulInt(weight_kg, 30) ELSE MulInt(weight_kg, 30 + reps)

\* 30 * epley_e1rm(weight_kg, reps)
epley_e1rm(weight_kg, reps) ==
    IF reps <= 1 THEN MulInt(weight_kg, 30) ELSE MulInt(weight_kg, 30 + reps)

\* 30 * (weight_kg * (1.0 + reps / 30.0)), the expression of the SQL queries
sql_e1rm(weight_kg, reps) == MulInt(weight_kg, 30 + reps)

(* ------------------------------- store --------------------------------- *)
Ids(table) == {r.id : r \in table}
MaxOf(S) == CHOOSE m \in S : \A x \in S : x <= m
\* INTEGER PRIMARY KEY without AUTOINCREMENT: largest rowid in use plus one
NextRowId(table) == IF table = {} THEN 1 ELSE MaxOf(Ids(table)) + 1

\* a connection opened without the pragma: SQLite's default
foreign_keys_off == FALSE

\* PRAGMA foreign_keys = ON
foreign_keys == TRUE

find_exercise_by_name(name) ==
    IF \E e \in exercises : e.name = name
    THEN Some(CHOOSE e \in exercises : e.name = name)
    ELSE None

\* a plain SET column = ?
Overwrite(new, old) == new

\* COALESCE(?, column)
COALESCE(new, old) == IF new # NULL THEN new ELSE old

\* the lookup matching on start_time, a full timestamp no date string equals
SelectWorkoutByStartTime(d) == None

\* SELECT ... FROM workouts WHERE date = ? ORDER BY id DESC LIMIT 1
SelectWorkoutForDate(d) ==
    LET rows == {w \in workouts : w.date = d}
    IN  IF rows = {} THEN None
        ELSE Some(CHOOSE w \in rows : \A x \in rows : x.id <= w.id)

\* the comparison turned round: now_iso < end_time
NeedsExtendReversed(end_time, now_iso) == end_time = NULL \/ now_iso < end_time[1]

\* the end_time written by every log, whatever it was
NeedsExtendAlways(end_time, now_iso) == TRUE

\* end_time IS NULL OR ? > end_time
NeedsExtend(end_time, now_iso) == end_time = NULL \/ now_iso > end_time[1]

\* the check letting 0 through
RepsRejectedBelowZero(reps) == reps < 0

\* --reps must be > 0
RepsRejected(reps) == reps <= 0
\* --unit must be 'kg' or 'lb'
UnitRejected(input_unit) == input_unit \notin {"kg", "lb"}

\* constraints of INSERT INTO sets: NOT NULL first, foreign keys at statement end
SetInsertError(row) ==
    IF row.weight_kg = NULL THEN "NotNull"
    ELSE IF foreign_keys /\ (row.workout_id \notin Ids(workouts)
                             \/ row.exercise_id \notin Ids(exercises))
    THEN "ForeignKey"
    ELSE "none"

Idle(p) == pc[p] = "idle"

Init ==
    /\ exercises = {}
    /\ workouts = {}
    /\ sets = {}
    /\ pc = [p \in Procs |-> "idle"]
    /\ loc = [p \in Procs |-> None]
    /\ result = [p \in Procs |-> "none"]
    /\ snap = [p \in Procs |-> None]
    /\ loggedDates = {}

(* ----------------------------- add-exercise ---------------------------- *)
add_or_update_exercise(p, name, primary_muscle, secondary_muscles) ==
    /\ Idle(p)
    /\ LET existing == find_exercise_by_name(name)
       IN  IF existing # None
           THEN exercises' = (exercises \ {existing[1]}) \cup
                    {[existing[1] EXCEPT
                        !.primary_muscle = COALESCE(primary_muscle, @),
                        !.secondary_muscles = COALESCE(secondary_muscles, @)]}
           ELSE exercises' = exercises \cup
                    {[id |-> NextRowId(exercises), name |-> name,
                      primary_muscle |-> primary_muscle,
                      secondary_muscles |-> secondary_muscles]}
    /\ result' = [result EXCEPT ![p] =
                     IF find_exercise_by_name(name) # None
                     THEN "exercise_updated" ELSE "exercise_added"]
    /\ UNCHANGED <<workouts, sets, pc, loc, snap, loggedDates>>

(* --------------------------------- log --------------------------------- *)
\* cmd_log up to and including the first SELECT on workouts
LogBegin(p, exercise, weight, reps, unit, date, time, workout_id, clock) ==
    /\ Idle(p)
    /\ Cardinality(sets) < MaxSets
    /\ LET input_unit == lower(unit)
           d == IF date # None THEN date[1] ELSE clock \div TimesPerDay
           ts == IF time # None THEN d * TimesPerDay + time[1] ELSE clock
           ex == find_exercise_by_name(exercise)
       IN  IF UnitRejected(input_unit)
           THEN /\ result' = [result EXCEPT ![p] = "bad_unit"]
                /\ UNCHANGED <<store, pc, loc, snap, loggedDates>>
           ELSE IF RepsRejected(reps)
           THEN /\ result' = [result EXCEPT ![p] = "bad_reps"]
                /\ UNCHANGED <<store, pc, loc, snap, loggedDates>>
           ELSE IF ex = None
           THEN /\ result' = [result EXCEPT ![p] = "exercise_not_found"]
                /\ UNCHANGED <<store, pc, loc, snap, loggedDates>>
           ELSE /\ loc' = [loc EXCEPT ![p] = Some(
                        [exercise_id |-> ex[1].id, d |-> d, ts |-> ts,
                         weight |-> ParseWeight(weight), input_unit |-> input_unit,
                         weight_kg |-> toKilograms(weight, input_unit),
                         reps |-> reps, arg_workout_id |-> workout_id,
                         row |-> IF workout_id # None THEN None
                                 ELSE SelectWorkoutForDate(d),
                         workout_id |-> 0])]
                /\ pc' = [pc EXCEPT ![p] = IF workout_id # None THEN "extend" ELSE "group"]
                /\ snap' = [snap EXCEPT ![p] = Some(store)]
                /\ result' = [result EXCEPT ![p] = "running"]
                /\ UNCHANGED <<store, loggedDates>>

\* --workout-id given: UPDATE workouts SET end_time = CASE ... END WHERE id = ?; commit
LogExtendWorkout(p) ==
    /\ pc[p] = "extend"
    /\ LET l == loc[p][1]
           wid == l.arg_workout_id[1]
       IN  /\ workouts' = {IF w.id = wid /\ NeedsExtend(w.end_time, l.ts)
                           THEN [w EXCEPT !.end_time = Some(l.ts)] ELSE w
                           : w \in workouts}
           /\ loc' = [loc EXCEPT ![p] = Some([l EXCEPT !.workout_id = wid])]
    /\ pc' = [pc EXCEPT ![p] = "insert"]
    /\ UNCHANGED <<exercises, sets, result, snap, loggedDates>>

\* get_or_create_workout_for_date after its SELECT: UPDATE or INSERT; commit
get_or_create_workout_for_date(p) ==
    /\ pc[p] = "group"
    /\ LET l == loc[p][1]
       IN  IF l.row # None
           THEN /\ workouts' =
                      IF NeedsExtend(l.row[1].end_time, l.ts)
                      THEN {IF w.id = l.row[1].id
                            THEN [w EXCEPT !.end_time = Some(l.ts)] ELSE w
                            : w \in workouts}
                      ELSE workouts
                /\ loc' = [loc EXCEPT ![p] = Some([l EXCEPT !.workout_id = l.row[1].id])]
           ELSE /\ workouts' = workouts \cup
                      {[id |-> NextRowId(workouts), date |-> l.d,
                        start_time |-> l.ts, end_time |-> Some(l.ts)]}
                /\ loc' = [loc EXCEPT ![p] =
                              Some([l EXCEPT !.workout_id = NextRowId(workouts)])]
    /\ loggedDates' = loggedDates \cup {loc[p][1].d}
    /\ pc' = [pc EXCEPT ![p] = "insert"]
    /\ UNCHANGED <<exercises, sets, result, snap>>

\* the row cmd_log inserts into sets
NewSetRow(l) ==
    [id |-> NextRowId(sets), workout_id |-> l.workout_id,
     exercise_id |-> l.exercise_id, timestamp |-> l.ts,
     input_weight |-> l.weight, input_unit |-> l.input_unit,
     weight_kg |-> l.weight_kg, reps |-> l.reps]

\* INSERT INTO sets ...; commit (or the exception leaves the with-block: rollback)
LogInsertSet(p) ==
    /\ pc[p] = "insert"
    /\ LET row == NewSetRow(loc[p][1])
           err == SetInsertError(row)
       IN  IF err = "none"
           THEN /\ sets' = sets \cup {row}
                /\ result' = [result EXCEPT ![p] = "logged"]
           ELSE /\ sets' = sets
                /\ result' = [result EXCEPT ![p] = err]
    /\ pc' = [pc EXCEPT ![p] = "idle"]
    /\ loc' = [loc EXCEPT ![p] = None]
    /\ snap' = [snap EXCEPT ![p] = None]
    /\ UNCHANGED <<exercises, workouts, loggedDates>>

(* ------------------------------ inputs --------------------------------- *)
\* the argument values a specification draws the commands' inputs from
AddExerciseCmd(p, D) ==
    \E name \in D.add_names, pm \in D.primary, sm \in D.secondary :
        add_or_update_exercise(p, name, pm, sm)

LogCmd(p, D) ==
    \E exercise \in D.log_names, weight \in D.weights, reps \in D.reps,
       unit \in D.units, date \in D.dates, time \in D.times,
       workout_id \in D.workout_ids, clock \in D.clocks :
        LogBegin(p, exercise, weight, reps, unit, date, time, workout_id, clock)

\* session grouping: one exercise, many dates and times
GroupingInputs ==
    [add_names |-> {"bench"}, primary |-> {None}, secondary |-> {None},
     log_names |-> {"bench", "squat"}, weights |-> {NaN, Some(100)},
     reps |-> {0, 5}, units |-> {"kg", "st"},
     dates |-> Opt({0, 1}), times |-> Opt(Times),
     workout_ids |-> {None, Some(2)}, clocks |-> {2}]

\* single-process, one command at a time
Next ==
    \/ AddExerciseCmd(1, GroupingInputs)
    \/ LogCmd(1, GroupingInputs)
    \/ LogExtendWorkout(1)
    \/ get_or_create_workout_for_date(1)
    \/ LogInsertSet(1)

Spec == Init /\ [][Next]_vars


(* ------------------------------ analytics ------------------------------ *)
MaxReal(S) == CHOOSE m \in S : \A x \in S : Leq(x, m)
SetsOfExercise(eid) == {s \in sets : s.exercise_id = eid}

\* cmd_summary, best_e1rm column: MAX(weight_kg * (1.0 + reps / 30.0)) over the
\* LEFT JOIN, NULL for no sets, printed as (best_e1rm or 0.0)
summary_best_e1rm(eid) ==
    IF SetsOfExercise(eid) = {} THEN Zero
    ELSE MaxReal({sql_e1rm(s.weight_kg, s.reps) : s \in SetsOfExercise(eid)})

\* cmd_prs: one row per set whose SQL e1rm equals the MAX of its exercise
cmd_prs ==
    {[exercise_id |-> s.exercise_id, set_id |-> s.id, timestamp |-> s.timestamp,
      input_weight |-> s.input_weight, input_unit |-> s.input_unit,
      reps |-> s.reps, e1rm |-> sql_e1rm(s.weight_kg, s.reps)] :
        s \in {x \in sets :
                 /\ x.exercise_id \in Ids(exercises)
                 /\ sql_e1rm(x.weight_kg, x.reps) =
                      MaxReal({sql_e1rm(y.weight_kg, y.reps) :
                                 y \in SetsOfExercise(x.exercise_id)})}}

(* --------------------- rows deleted through the schema ----------------- *)
\* DELETE FROM exercises WHERE id = ?: sets.exercise_id ... ON DELETE RESTRICT
SqlDeleteExercise(p, id) ==
    /\ Idle(p)
    /\ IF foreign_keys /\ SetsOfExercise(id) # {}
       THEN /\ exercises' = exercises
            /\ result' = [result EXCEPT ![p] = "ForeignKey"]
       ELSE /\ exercises' = {e \in exercises : e.id # id}
            /\ result' = [result EXCEPT ![p] = "deleted"]
    /\ UNCHANGED <<workouts, sets, pc, loc, snap, loggedDates>>

\* DELETE FROM workouts WHERE id = ?: sets.workout_id ... ON DELETE CASCADE
SqlDeleteWorkout(p, id) ==
    /\ Idle(p)
    /\ workouts' = {w \in workouts : w.id # id}
    /\ sets' = IF foreign_keys THEN {s \in sets : s.workout_id # id} ELSE sets
    /\ result' = [result EXCEPT ![p] = "deleted"]
    /\ UNCHANGED <<exercises, pc, loc, snap, loggedDates>>

(* ------------------------- other specifications ------------------------ *)
\* analytics: two exercises, several weights, units and repetition counts
AnalyticsInputs ==
    [add_names |-> {"bench", "squat"}, primary |-> {None}, secondary |-> {None},
     log_names |-> {"bench", "squat"}, weights |-> {Some(90), Some(100)},
     reps |-> {0, 1, 4}, units |-> {"kg", "lb", "LB"},
     dates |-> {Some(0)}, times |-> {Some(0)},
     workout_ids |-> {None, Some(1)}, clocks |-> {0}]

AnalyticsNext ==
    \/ AddExerciseCmd(1, AnalyticsInputs)
    \/ LogCmd(1, AnalyticsInputs)
    \/ LogExtendWorkout(1)
    \/ get_or_create_workout_for_date(1)
    \/ LogInsertSet(1)

AnalyticsSpec == Init /\ [][AnalyticsNext]_vars

\* the e1RM estimate: one exercise, weights below, at and above zero
E1rmInputs ==
    [add_names |-> {"bench"}, primary |-> {None}, secondary |-> {None},
     log_names |-> {"bench"},
     weights |-> {Some(0 - 100), Some(0), Some(90), Some(100)},
     reps |-> {0, 1, 2, 4}, units |-> {"kg"},
     dates |-> {Some(0)}, times |-> {Some(0)},
     workout_ids |-> {None, Some(1)}, clocks |-> {0}]

E1rmNext ==
    \/ AddExerciseCmd(1, E1rmInputs)
    \/ LogCmd(1, E1rmInputs)
    \/ LogExtendWorkout(1)
    \/ get_or_create_workout_for_date(1)
    \/ LogInsertSet(1)

E1rmSpec == Init /\ [][E1rmNext]_vars

\* exercise upsert: two names, several muscle values
UpsertInputs ==
    [add_names |-> {"bench", "squat"},
     primary |-> Opt({"chest", "back"}), secondary |-> Opt({"triceps"}),
     log_names |-> {"bench"}, weights |-> {Some(100)},
     reps |-> {5}, units |-> {"kg"},
     dates |-> {Some(0)}, times |-> {Some(0)},
     workout_ids |-> {None, Some(1)}, clocks |-> {0}]

UpsertNext ==
    \/ AddExerciseCmd(1, UpsertInputs)
    \/ LogCmd(1, UpsertInputs)
    \/ LogExtendWorkout(1)
    \/ get_or_create_workout_for_date(1)
    \/ LogInsertSet(1)

UpsertSpec == Init /\ [][UpsertNext]_vars

\* the schema under deletes: process 1 runs the commands, a second connection
\* opened by connect() deletes rows at any time
StoreInputs ==
    [add_names |-> {"bench", "squat"}, primary |-> {None}, secondary |-> {None},
     log_names |-> {"bench", "squat"}, weights |-> {Some(100)},
     reps |-> {5}, units |-> {"kg"},
     dates |-> {Some(0), Some(1)}, times |-> {Some(0)},
     workout_ids |-> {None, Some(1)}, clocks |-> {0}]
DeleteIds == {1, 2}

StoreNext ==
    \/ AddExerciseCmd(1, StoreInputs)
    \/ LogCmd(1, StoreInputs)
    \/ LogExtendWorkout(1)
    \/ get_or_create_workout_for_date(1)
    \/ LogInsertSet(1)
    \/ \E id \in DeleteIds : SqlDeleteExercise(2, id)
    \/ \E id \in DeleteIds : SqlDeleteWorkout(2, id)

StoreSpec == Init /\ [][StoreNext]_vars

(* =========================== session grouping ========================== *)
WorkoutsOn(d) == {w \in workouts : w.date = d}
SetsOf(wid) == {s \in sets : s.workout_id = wid}
ByDate(p) == loc[p] # None /\ loc[p][1].arg_workout_id = None
Running(p) == loc[p][1]

Target(p) ==
    IF pc[p] = "extend" THEN Running(p).arg_workout_id
    ELSE IF pc[p] = "group" /\ Running(p).row # None
    THEN Some(Running(p).row[1].id)
    ELSE None

C2_EndTimeMonotonic ==
    [][ \A w \in workouts : \E w2 \in workouts' :
          /\ w2.id = w.id
          /\ w.end_time # NULL => (w2.end_time # NULL /\ w2.end_time[1] >= w.end_time[1])
          /\ \A p \in Procs : pc'[p] # pc[p] =>
                IF Target(p) = Some(w.id)
                THEN w2.end_time =
                        IF w.end_time = NULL \/ Running(p).ts > w.end_time[1]
                        THEN Some(Running(p).ts) ELSE w.end_time
                ELSE w2.end_time = w.end_time
      ]_vars

\* a set logged later with an earlier timestamp left the end_time where it was
C2_Witness ==
    \E w \in workouts : \E s1, s2 \in SetsOf(w.id) :
        /\ s1.id < s2.id
        /\ s2.timestamp < s1.timestamp
        /\ w.end_time = Some(s1.timestamp)

\* C3: the Workout change and the Set of one log are one transaction: in every
\* committed state each Workout has a Set and its end_time is the timestamp of
\* one of its Sets, and a log whose INSERT INTO sets fails leaves the tables as
\* they were when it began.
C3_LogIsOneTransaction ==
    [][ /\ \A w \in workouts' : \E s \in sets' :
              s.workout_id = w.id /\ w.end_time = Some(s.timestamp)
        /\ \A p \in Procs : (pc[p] = "insert" /\ sets' = sets) => store' = snap[p][1]
      ]_vars

\* C4: a rejected log leaves exercises, workouts and sets unchanged: a unit not
\* kg/lb, reps <= 0 and an unknown exercise are rejected before any write and
\* never get past validation, and a log with an explicit workout id that did
\* not exist when it began ends with the tables as they were.
ValidationErrors == {"bad_unit", "bad_reps", "exercise_not_found"}
MissingWorkoutArg(p) ==
    /\ loc[p] # None
    /\ Running(p).arg_workout_id # None
    /\ Running(p).arg_workout_id[1] \notin Ids(snap[p][1][2])

C4_RejectedLogLeavesStore ==
    [][ \A p \in Procs :
          /\ (pc[p] = "idle" /\ result'[p] \in ValidationErrors) =>
                (store' = store /\ pc'[p] = "idle")
          /\ loc'[p] # None =>
                /\ loc'[p][1].input_unit \in {"kg", "lb"}
                /\ loc'[p][1].reps > 0
                /\ loc'[p][1].exercise_id \in Ids(snap'[p][1][1])
          /\ MissingWorkoutArg(p) => store' = snap[p][1]
      ]_vars

\* a log naming a missing workout id failed on the foreign key with rows stored
C4_Witness ==
    /\ result[1] = "ForeignKey"
    /\ sets # {}
    /\ workouts # {}

(* ============================== analytics ============================== *)
E1rmOf(s) == epley_e1rm(s.weight_kg, s.reps)
BestE1rm(eid) == MaxReal({E1rmOf(s) : s \in SetsOfExercise(eid)})
PrsRows(eid) == {r \in cmd_prs : r.exercise_id = eid}

\* C5: summary and prs rank by e1rm (weight if reps <= 1, else
\* weight * (1 + reps/30)): for every exercise with sets, the best e1RM of the
\* summary, and the e1RM and the set of every prs row, are the maximum of e1rm
\* over the sets of the exercise.
C5_AnalyticsUseEpley ==
    \A e \in exercises : SetsOfExercise(e.id) # {} =>
        /\ summary_best_e1rm(e.id) = BestE1rm(e.id)
        /\ \A r \in PrsRows(e.id) :
              /\ r.e1rm = BestE1rm(e.id)
              /\ \E s \in SetsOfExercise(e.id) : s.id = r.set_id /\ E1rmOf(s) = BestE1rm(e.id)

\* C6: prs has exactly one row for every exercise with a set, also when sets
\* tie on the maximum, that row's e1RM (as the query computes it) is the
\* largest of the exercise, and it has no row for an exercise without sets.
C6_PrsOneRowPerExercise ==
    \A e \in exercises :
        IF SetsOfExercise(e.id) = {} THEN PrsRows(e.id) = {}
        ELSE /\ Cardinality(PrsRows(e.id)) = 1
             /\ \A r \in PrsRows(e.id) : \A s \in SetsOfExercise(e.id) :
                    Leq(sql_e1rm(s.weight_kg, s.reps), r.e1rm)

(* ================================ store ================================ *)
\* C7: add-exercise on an existing name adds no row and keeps id and name; a
\* non-null primary/secondary muscle replaces the stored one, a null one keeps
\* it; exercise names stay unique.
C7_UpsertCoalesces ==
    [][ /\ \A e1, e2 \in exercises' : e1.name = e2.name => e1 = e2
        /\ \A name \in UpsertInputs.add_names, pm \in UpsertInputs.primary,
              sm \in UpsertInputs.secondary :
              (add_or_update_exercise(1, name, pm, sm)
                 /\ \E e \in exercises : e.name = name) =>
                 LET e == CHOOSE x \in exercises : x.name = name
                 IN  exercises' = (exercises \ {e}) \cup
                        {[id |-> e.id, name |-> e.name,
                          primary_muscle |->
                              IF pm = NULL THEN e.primary_muscle ELSE pm,
                          secondary_muscles |->
                              IF sm = NULL THEN e.secondary_muscles ELSE sm]}
      ]_vars

\* an exercise was re-added and holds a primary and a secondary muscle
C7_Witness ==
    /\ result[1] = "exercise_updated"
    /\ \E e \in exercises :
          e.primary_muscle = Some("back") /\ e.secondary_muscles = Some("triceps")

\* C8: every Set references an existing Workout and an existing Exercise;
\* deleting an Exercise that a Set references is rejected and changes nothing,
\* deleting a Workout removes exactly its Sets, and an INSERT of a Set whose
\* Workout or Exercise is missing is rejected.
RefIntegrity ==
    \A s \in sets : s.workout_id \in Ids(workouts) /\ s.exercise_id \in Ids(exercises)

C8_ReferentialIntegrity ==
    [][ /\ RefIntegrity'
        /\ \A id \in DeleteIds :
              (SqlDeleteExercise(2, id) /\ SetsOfExercise(id) # {}) => store' = store
        /\ \A id \in DeleteIds :
              SqlDeleteWorkout(2, id) =>
                 /\ sets' = {s \in sets : s.workout_id # id}
                 /\ workouts' = {w \in workouts : w.id # id}
                 /\ exercises' = exercises
        /\ \A p \in Procs :
              (/\ pc[p] = "insert"
               /\ pc'[p] = "idle"
               /\ \/ Running(p).workout_id \notin Ids(workouts)
                  \/ Running(p).exercise_id \notin Ids(exercises)) => sets' = sets
      ]_vars

\* the delete of an exercise with sets was rejected
C8_Witness ==
    /\ result[2] = "ForeignKey"
    /\ sets # {}
    /\ \A e \in exercises : SetsOfExercise(e.id) # {}

\* C9: every stored Set has unit kg or lb, weight_kg equal to the entered
\* weight for kg and to the entered weight * 0.45359237 for lb, reps > 0, and
\* the entered weight, unit and reps of its log; no step changes or removes a
\* stored Set.
SetRowConsistent(s) ==
    /\ s.input_unit \in {"kg", "lb"}
    /\ s.reps \in Nat \ {0}
    /\ s.input_weight # NULL
    /\ s.input_weight[2] = 0
    /\ s.input_weight[1] % 10000 = 0
    /\ LET n == s.input_weight[1] \div 10000
       IN  IF s.input_unit = "kg" THEN s.weight_kg = s.input_weight
           ELSE s.weight_kg = <<n * 4535 + ((n * 9237) \div 10000), (n * 9237) % 10000>>

C9_SetRowsConsistent ==
    [][ /\ \A s \in sets' : SetRowConsistent(s)
        /\ sets \subseteq sets'
        /\ \A p \in Procs : (pc[p] = "insert" /\ pc'[p] = "idle") =>
              \A s \in sets' \ sets :
                  /\ s.input_weight = Running(p).weight
                  /\ s.input_unit = Running(p).input_unit
                  /\ s.reps = Running(p).reps
      ]_vars

\* a set entered in lb is stored, and a later log left it as it was
C9_Witness ==
    \E s1, s2 \in sets :
        /\ s1.id < s2.id
        /\ s1.input_unit = "lb"
        /\ s2.input_unit = "kg"
        /\ Less(s1.weight_kg, s1.input_weight)

(* ================================= e1RM ================================ *)
E1rmValue(s) ==
    IF s.reps <= 1 THEN E1rmOf(s) = Norm(s.weight_kg[1] * 30, s.weight_kg[2] * 30)
    ELSE E1rmOf(s) = Norm(s.weight_kg[1] * (30 + s.reps), s.weight_kg[2] * (30 + s.reps))

\* C10 as stated: e1rm(w, reps) is w for reps <= 1 and w * (1 + reps/30)
\* otherwise, and it does not decrease when the weight grows at fixed reps nor
\* when reps grow at fixed weight, over every weight and reps a log stores.
C10_E1rmMonotonicAllWeights ==
    /\ \A s \in sets : E1rmValue(s)
    /\ \A s1, s2 \in sets :
          /\ (s1.reps = s2.reps /\ Less(s1.weight_kg, s2.weight_kg)) =>
                Leq(E1rmOf(s1), E1rmOf(s2))
          /\ (s1.weight_kg = s2.weight_kg /\ s1.reps < s2.reps) =>
                Leq(E1rmOf(s1), E1rmOf(s2))

\* C10 amended: the same values; e1rm grows strictly with the weight at fixed
\* reps; at a fixed weight >= 0 it does not decrease when reps grow, and it
\* grows strictly when the weight is > 0.
C10_E1rmMonotonic ==
    /\ \A s \in sets : E1rmValue(s)
    /\ \A s1, s2 \in sets :
          /\ (s1.reps = s2.reps /\ Less(s1.weight_kg, s2.weight_kg)) =>
                Less(E1rmOf(s1), E1rmOf(s2))
          /\ (s1.weight_kg = s2.weight_kg /\ s1.reps < s2.reps
                /\ Leq(Zero, s1.weight_kg)) =>
                /\ Leq(E1rmOf(s1), E1rmOf(s2))
                /\ Less(Zero, s1.weight_kg) => Less(E1rmOf(s1), E1rmOf(s2))

\* a single-rep set and a longer set of one positive weight are stored
C10_Witness ==
    \E s1, s2 \in sets :
        /\ s1.weight_kg = s2.weight_kg
        /\ Less(Zero, s1.weight_kg)
        /\ s1.reps = 1
        /\ s2.reps > 1

(* ======================= per-exercise summary ========================== *)
AddReal(x, y) == Norm(x[1] + y[1], x[2] + y[2])

\* SUM(s.weight_kg * s.reps) over the rows of a group
RECURSIVE SumVolume(_)
SumVolume(S) ==
    IF S = {} THEN Zero
    ELSE LET s == CHOOSE x \in S : TRUE
         IN  AddReal(MulInt(s.weight_kg, s.reps), SumVolume(S \ {s}))

\* FROM exercises e JOIN sets s: only the exercises that have a set
SummaryGroupsInnerJoin == {e \in exercises : SetsOfExercise(e.id) # {}}

\* FROM exercises e LEFT JOIN sets s ON s.exercise_id = e.id GROUP BY e.id
SummaryGroups == exercises

\* cmd_summary without --exercise: the rows it prints, aggregates NULL or 0
\* printed through (x or 0)
cmd_summary ==
    {[name |-> e.name,
      sets |-> Cardinality(SetsOfExercise(e.id)),
      sessions |-> Cardinality({s.workout_id : s \in SetsOfExercise(e.id)}),
      volume_kg |-> SumVolume(SetsOfExercise(e.id)),
      best_e1rm |-> summary_best_e1rm(e.id)] : e \in SummaryGroups}

\* the summary: two exercises, two weights, two dates
SummaryInputs ==
    [add_names |-> {"bench", "squat"}, primary |-> {None}, secondary |-> {None},
     log_names |-> {"bench", "squat"}, weights |-> {Some(90), Some(100)},
     reps |-> {4}, units |-> {"kg", "lb"},
     dates |-> {Some(0), Some(1)}, times |-> {Some(0)},
     workout_ids |-> {None, Some(1)}, clocks |-> {0}]

SummaryNext ==
    \/ AddExerciseCmd(1, SummaryInputs)
    \/ LogCmd(1, SummaryInputs)
    \/ LogExtendWorkout(1)
    \/ get_or_create_workout_for_date(1)
    \/ LogInsertSet(1)

SummarySpec == Init /\ [][SummaryNext]_vars

RECURSIVE SumHiReps(_)
SumHiReps(S) ==
    IF S = {} THEN 0
    ELSE LET s == CHOOSE x \in S : TRUE
         IN  s.weight_kg[1] * s.reps + SumHiReps(S \ {s})
RECURSIVE SumLoReps(_)
SumLoReps(S) ==
    IF S = {} THEN 0
    ELSE LET s == CHOOSE x \in S : TRUE
         IN  s.weight_kg[2] * s.reps + SumLoReps(S \ {s})

\* C11: the summary has exactly one entry for every stored exercise, also for
\* one without sets; the entry reports the number of the exercise's sets, the
\* number of distinct Workouts owning them and the sum of weight_kg * reps over
\* them, all 0 for an exercise without sets.
C11_SummaryPerExercise ==
    /\ \A r \in cmd_summary : \E e \in exercises : e.name = r.name
    /\ \A e \in exercises :
          LET rows == {r \in cmd_summary : r.name = e.name}
              own == SetsOfExercise(e.id)
          IN  /\ Cardinality(rows) = 1
              /\ \A r \in rows :
                    /\ r.sets = Cardinality(own)
                    /\ r.sessions = Cardinality({w \in workouts :
                                        \E s \in own : s.workout_id = w.id})
                    /\ r.volume_kg = <<SumHiReps(own) + (SumLoReps(own) \div 10000),
                                       SumLoReps(own) % 10000>>
                    /\ own = {} =>
                          (r.sets = 0 /\ r.sessions = 0 /\ r.volume_kg = <<0, 0>>)

\* one exercise has sets in two workouts, the other has none
C11_Witness ==
    \E e1, e2 \in exercises :
        /\ SetsOfExercise(e2.id) = {}
        /\ \E s1, s2 \in SetsOfExercise(e1.id) : s1.workout_id # s2.workout_id

(* ========================= recent-set history ========================== *)
\* SELECT ... FROM sets WHERE exercise_id = ?
\* ORDER BY timestamp DESC, id DESC LIMIT ?  (limit >= 0)
RECURSIVE RecentRows(_, _)
RecentRows(S, limit) ==
    IF S = {} \/ limit = 0 THEN <<>>
    ELSE LET s == CHOOSE x \in S : \A y \in S :
                      \/ y.timestamp < x.timestamp
                      \/ (y.timestamp = x.timestamp /\ y.id <= x.id)
         IN  <<s>> \o RecentRows(S \ {s}, limit - 1)

\* f"{input_weight:.2f}{input_unit} x {reps}"
SetDesc(r) == [input_weight |-> r.input_weight, input_unit |-> r.input_unit,
               reps |-> r.reps]

\* the loop over rows: best_e1rm = 0.0, best_desc = ""; replaced when e1 > best_e1rm
RECURSIVE BestOfRows(_, _, _)
BestOfRows(rows, i, best) ==
    IF i > Len(rows) THEN best
    ELSE LET e1 == epley_e1rm(rows[i].weight_kg, rows[i].reps)
         IN  BestOfRows(rows, i + 1,
                        IF Less(best.best_e1rm, e1)
                        THEN [best_e1rm |-> e1, best_desc |-> Some(SetDesc(rows[i]))]
                        ELSE best)

\* _print_exercise_summary(conn, name, limit): what it prints ("" is None)
print_exercise_summary(name, limit) ==
    LET ex == find_exercise_by_name(name)
    IN  IF ex = None THEN [kind |-> "not_found"]
        ELSE LET rows == RecentRows(SetsOfExercise(ex[1].id), limit)
             IN  IF rows = <<>> THEN [kind |-> "no_sets"]
                 ELSE LET best == BestOfRows(rows, 1,
                                     [best_e1rm |-> Zero, best_desc |-> None])
                      IN  [kind |-> "history", rows |-> rows,
                           best_e1rm |-> best.best_e1rm,
                           best_desc |-> best.best_desc]

\* the history: one exercise, weights 0 and 100, two times of one day
HistoryInputs ==
    [add_names |-> {"bench"}, primary |-> {None}, secondary |-> {None},
     log_names |-> {"bench"}, weights |-> {Some(0), Some(100)},
     reps |-> {1, 5}, units |-> {"kg"},
     dates |-> {Some(0)}, times |-> {Some(0), Some(1)},
     workout_ids |-> {None, Some(1)}, clocks |-> {0}]
Limits == {1, 2}

HistoryNext ==
    \/ AddExerciseCmd(1, HistoryInputs)
    \/ LogCmd(1, HistoryInputs)
    \/ LogExtendWorkout(1)
    \/ get_or_create_workout_for_date(1)
    \/ LogInsertSet(1)

HistorySpec == Init /\ [][HistoryNext]_vars

MoreRecent(x, y) ==
    x.timestamp > y.timestamp \/ (x.timestamp = y.timestamp /\ x.id > y.id)
Range(seq) == {seq[i] : i \in 1..Len(seq)}

\* C12: for an exercise with a set and a limit N >= 1 the history is the N most
\* recent sets (timestamp descending, then id descending), its best e1RM is the
\* maximum of e1rm over that window, and its description is the entered
\* weight, unit and reps of a set of the window attaining it.
C12_HistoryBestOfWindow ==
    \A e \in exercises : \A N \in Limits :
        SetsOfExercise(e.id) # {} =>
            LET out == print_exercise_summary(e.name, N)
                own == SetsOfExercise(e.id)
            IN  /\ out.kind = "history"
                /\ Len(out.rows) = IF Cardinality(own) < N THEN Cardinality(own) ELSE N
                /\ Range(out.rows) \subseteq own
                /\ \A i, j \in 1..Len(out.rows) : i < j => MoreRecent(out.rows[i], out.rows[j])
                /\ \A x \in own \ Range(out.rows) : \A r \in Range(out.rows) : MoreRecent(r, x)
                /\ out.best_e1rm = MaxReal({E1rmOf(r) : r \in Range(out.rows)})
                /\ \E r \in Range(out.rows) :
                      /\ E1rmOf(r) = out.best_e1rm
                      /\ out.best_desc = Some(SetDesc(r))

(* ========================== concurrent writers ========================= *)
\* two processes run the commands against one database file; a step is what a
\* process does up to its next commit, and the SELECT of the session grouper
\* holds no lock once it has returned
ConcInputs ==
    [add_names |-> {"bench"}, primary |-> {None}, secondary |-> {None},
     log_names |-> {"bench"}, weights |-> {Some(100)},
     reps |-> {5}, units |-> {"kg"},
     dates |-> {Some(0), Some(1)}, times |-> {Some(0), Some(1)},
     workout_ids |-> {None, Some(1)}, clocks |-> {0}]

ConcNext ==
    \E p \in Procs :
        \/ AddExerciseCmd(p, ConcInputs)
        \/ LogCmd(p, ConcInputs)
        \/ LogExtendWorkout(p)
        \/ get_or_create_workout_for_date(p)
        \/ LogInsertSet(p)

ConcSpec == Init /\ [][ConcNext]_vars

\* the workouts table as it was when the running log of p began
WorkoutsAtBegin(p) == snap[p][1][2]

\* C13: with two writers the session grouper is race-prone: a by-date log whose
\* lookup found no Workout inserts one whatever the table holds by then
\* (nothing in the store rejects a second Workout of a date), and a second
\* Workout of a date is inserted only by a log that looked the date up before
\* every Workout now stored for it was inserted, which one writer running its
\* commands one after another never does.
C13_DuplicateOnlyByRace ==
    [][ \A p \in Procs : (pc[p] = "group" /\ pc'[p] = "insert") =>
          LET d == Running(p).d
          IN  /\ Running(p).row = None =>
                    Cardinality(WorkoutsOn(d)') = Cardinality(WorkoutsOn(d)) + 1
              /\ Running(p).row # None => Ids(workouts') = Ids(workouts)
              /\ (WorkoutsOn(d) # {} /\ Ids(workouts') # Ids(workouts)) =>
                    /\ \A w \in WorkoutsAtBegin(p) : w.date # d
                    /\ WorkoutsOn(d) \cap WorkoutsAtBegin(p) = {}
      ]_vars

\* two logs of one date overlapped and left two Workouts for it
C13_Witness ==
    \E w1, w2 \in workouts : w1.id # w2.id /\ w1.date = w2.date

(* ========================== workout time span ========================== *)
\* human_duration: end - start, None ("-") without an end_time; the rounding
\* down to whole minutes keeps the sign
human_duration(start_iso, end_iso) ==
    IF end_iso = NULL THEN None ELSE Some(end_iso[1] - start_iso)

\* logs that all store their Set: the inputs of session grouping without NaN
SpanInputs == [GroupingInputs EXCEPT !.weights = {Some(100)}]

SpanNext ==
    \/ AddExerciseCmd(1, SpanInputs)
    \/ LogCmd(1, SpanInputs)
    \/ LogExtendWorkout(1)
    \/ get_or_create_workout_for_date(1)
    \/ LogInsertSet(1)

SpanSpec == Init /\ [][SpanNext]_vars

====
